---- MODULE Spec2Model ----
(***************************************************************************)
(* Chain-of-Experts: the expert base class (experts/base_expert.py) and    *)
(* the two baseline solvers (baseline/standard.py,                         *)
(* baseline/chain_of_thought.py).                                          *)
(*                                                                         *)
(* A Python string is a sequence of tokens.  A token is a piece of literal *)
(* text, a newline, a triple-backtick marker, or a template placeholder    *)
(* such as "{problem}".  A Python value is a tagged record: Str(s) or None.*)
(* A call that may raise yields Return(v) or Raise(e), e being the name of *)
(* the Python exception class.                                             *)
(***************************************************************************)
EXTENDS Integers, Sequences, FiniteSets, TLC

VARIABLES unit,    \* the expert object the caller holds, or None
          ncalls,  \* forward/backward calls made on it since it was built
          last     \* the latest call: operation, arguments, outcome, requests

vars == <<unit, ncalls, last>>

-----------------------------------------------------------------------------
\* Bounds of the model.

\* longest backend response, in tokens
MaxLen == 6
\* forward/backward calls followed on one unit
MaxCalls == 3

-----------------------------------------------------------------------------
\* Python values and outcomes.

None == [kind |-> "NoneType"]
Str(s) == [kind |-> "str", val |-> s]
IsStr(v) == v.kind = "str"

Return(v) == [ok |-> TRUE, val |-> v]
Raise(e) == [ok |-> FALSE, err |-> e]

NL == "\n"
\* the triple-backtick marker
FENCE == "[fence]"
LANG == "python"
CODE == "x"

\* The tokens a backend response is made of.
Alphabet == {FENCE, LANG, NL, CODE}

RECURSIVE SeqsUpTo(_, _)
SeqsUpTo(S, n) ==
    IF n = 0 THEN {<<>>}
    ELSE LET shorter == SeqsUpTo(S, n - 1)
         IN shorter \cup {Append(s, x) : s \in {t \in shorter : Len(t) = n - 1}, x \in S}

Responses == SeqsUpTo(Alphabet, MaxLen)

\* placeholder token |-> the variable it names
PlaceholderName ==
    [t \in {"{problem}", "{problem_description}", "{code_example}"} |->
        CASE t = "{problem}" -> "problem"
          [] t = "{problem_description}" -> "problem_description"
          [] t = "{code_example}" -> "code_example"]

IsPlaceholder(tok) == tok \in DOMAIN PlaceholderName

-----------------------------------------------------------------------------
\* The prompting library, as the source uses it.

\* the sampling temperature every ChatOpenAI is built with
Temperature == 0

ChatOpenAI(model, temperature) == [model |-> model, temperature |-> temperature]

\* PromptTemplate.from_template: the template and the variables it names
from_template(template) ==
    [template |-> template,
     input_variables |->
        {PlaceholderName[template[i]] :
            i \in {j \in 1..Len(template) : IsPlaceholder(template[j])}}]

LLMChain(llm, prompt) == [llm |-> llm, prompt |-> prompt]

\* str.format over a template: each placeholder replaced by its value
RECURSIVE format(_, _)
format(template, kwargs) ==
    IF template = <<>> THEN <<>>
    ELSE (IF IsPlaceholder(Head(template))
          THEN kwargs[PlaceholderName[Head(template)]].val
          ELSE <<Head(template)>>) \o format(Tail(template), kwargs)

\* What the backend does with one request: it fails, or it answers with text.
OutcomesOver(texts) == {[fail |-> TRUE]} \cup {[fail |-> FALSE, text |-> r] : r \in texts}

\* LLMChain.predict(**kwargs): validate the inputs, render, one request.
\* Yields the outcome and the requests sent to the backend.
predict(chain, kwargs, outcome) ==
    IF ~(chain.prompt.input_variables \subseteq DOMAIN kwargs)
    THEN [out |-> Raise("ValueError"), requests |-> <<>>]
    ELSE LET request == [model |-> chain.llm.model,
                         temperature |-> chain.llm.temperature,
                         prompt |-> format(chain.prompt.template, kwargs)]
         IN [out |-> IF outcome.fail THEN Raise("APIError")
                     ELSE Return(Str(outcome.text)),
             requests |-> <<request>>]

-----------------------------------------------------------------------------
\* Python attribute access and string concatenation.

\* an instance's attributes are its own and its class's
hasattr(self, attr) == attr \in DOMAIN self \/ attr \in DOMAIN self.class

getattr(self, attr) ==
    IF attr \in DOMAIN self THEN Return(self[attr])
    ELSE IF attr \in DOMAIN self.class THEN Return(self.class[attr])
    ELSE Raise("AttributeError")

\* a + b on two evaluated operands, with None rendered as text: a slip that
\* lets a missing template through
add_Coerce(a, b) ==
    Return(Str((IF IsStr(a) THEN a.val ELSE <<"None">>) \o
               (IF IsStr(b) THEN b.val ELSE <<"None">>)))

\* a + b on two evaluated operands
add(a, b) ==
    IF IsStr(a) /\ IsStr(b) THEN Return(Str(a.val \o b.val)) ELSE Raise("TypeError")

\* self.ROLE_DESCRIPTION + NL + self.<task>, evaluated left to right
role_plus_task(self, task) ==
    LET role == getattr(self, "ROLE_DESCRIPTION")
    IN IF ~role.ok THEN role
       ELSE LET head == add(role.val, Str(<<NL>>))
            IN IF ~head.ok THEN head
               ELSE LET t == getattr(self, task)
                    IN IF ~t.ok THEN t ELSE add(head.val, t.val)

-----------------------------------------------------------------------------
\* BaseExpert

\* the instance after lines 9-16 of __init__
init_fields(cls, name, description, model) ==
    [class |-> cls, name |-> name, description |-> description, model |-> model,
     llm |-> ChatOpenAI(model, Temperature)]

\* the instance after the forward chain is built
with_forward(self, template) ==
    self @@ [forward_prompt_template |-> template,
             forward_chain |-> LLMChain(self.llm, from_template(template.val))]

\* the instance after the backward chain is built
with_backward(self, template) ==
    self @@ [backward_prompt_template |-> template,
             backward_chain |-> LLMChain(self.llm, from_template(template.val))]

\* __init__ with the test for BACKWARD_TASK left out
BaseExpert_init_NoBackward(cls, name, description, model) ==
    LET self == init_fields(cls, name, description, model)
        fwd == role_plus_task(self, "FORWARD_TASK")
    IN IF ~fwd.ok THEN fwd ELSE Return(with_forward(self, fwd.val))

\* BaseExpert.__init__ on a subclass whose class attributes are cls:
\* the object built, or the exception raised.
BaseExpert_init(cls, name, description, model) ==
    LET self == init_fields(cls, name, description, model)
        fwd == role_plus_task(self, "FORWARD_TASK")
    IN IF ~fwd.ok THEN fwd
       ELSE LET self1 == with_forward(self, fwd.val)
            IN IF hasattr(self1, "BACKWARD_TASK")
               THEN LET bwd == role_plus_task(self1, "BACKWARD_TASK")
                    IN IF ~bwd.ok THEN bwd
                       ELSE Return(with_backward(self1, bwd.val))
               ELSE Return(self1)

\* Calling a method declared (self) with keyword arguments kwargs: Python
\* rejects any keyword; the body is pass, so the call returns None.
call_no_args(self, kwargs) ==
    IF DOMAIN kwargs # {}
    THEN [self |-> self, out |-> Raise("TypeError"), requests |-> <<>>]
    ELSE [self |-> self, out |-> Return(None), requests |-> <<>>]

\* forward that renders its template into the object
BaseExpert_forward_Rebinding(self, kwargs) ==
    [self |-> [self EXCEPT !.forward_prompt_template = Str(<<"rendered">>)],
     out |-> Return(None), requests |-> <<>>]

\* BaseExpert.forward: the object afterwards, the outcome, the requests sent
BaseExpert_forward(self, kwargs) == call_no_args(self, kwargs)

\* BaseExpert.backward
BaseExpert_backward(self, kwargs) == call_no_args(self, kwargs)

-----------------------------------------------------------------------------
\* The inputs the model draws from.

ROLE == <<"role">>
FORWARD_A == <<"formulate", "{problem}">>
FORWARD_B == <<"answer">>
BACKWARD_A == <<"revise", "{problem}", "{code_example}">>

AttrValues ==
    [ROLE_DESCRIPTION |-> {None, Str(ROLE)},
     FORWARD_TASK |-> {None, Str(FORWARD_A), Str(FORWARD_B)},
     BACKWARD_TASK |-> {None, Str(BACKWARD_A)}]

\* the class attributes of a subclass: each of the three absent, None or a string
Variants ==
    UNION {{f \in [D -> UNION {AttrValues[a] : a \in D}] :
               \A a \in D : f[a] \in AttrValues[a]} : D \in SUBSET DOMAIN AttrValues}

Names == {"formulator", "coder"}
Descriptions == {"an expert"}
Models == {"m1", "m2"}

Texts == {<<CODE>>, <<CODE, NL, CODE>>}

\* keyword arguments: a mapping from some of the keys to text
Kwargs(keys) == UNION {[D -> {Str(t) : t \in Texts}] : D \in SUBSET keys}

-----------------------------------------------------------------------------
\* The expert's life: construction, then forward and backward calls.  The
\* backend stands ready with an outcome for whatever request reaches it.

Init ==
    /\ unit = None
    /\ ncalls = 0
    /\ last = [op |-> "none"]

Construct ==
    \E cls \in Variants, name \in Names, description \in Descriptions, model \in Models :
        LET r == BaseExpert_init(cls, name, description, model)
        IN /\ last' = [op |-> "__init__", cls |-> cls, out |-> r, requests |-> <<>>]
           /\ unit' = IF r.ok THEN r.val ELSE unit
           /\ ncalls' = IF r.ok THEN 0 ELSE ncalls

Forward ==
    /\ unit # None
    /\ ncalls < MaxCalls
    /\ \E kwargs \in Kwargs({"problem", "code_example"}), outcome \in OutcomesOver(Texts) :
          LET r == BaseExpert_forward(unit, kwargs)
          IN /\ unit' = r.self
             /\ last' = [op |-> "forward", kwargs |-> kwargs, backend |-> outcome,
                         out |-> r.out, requests |-> r.requests]
    /\ ncalls' = ncalls + 1

Backward ==
    /\ unit # None
    /\ ncalls < MaxCalls
    /\ \E kwargs \in Kwargs({"problem", "code_example"}), outcome \in OutcomesOver(Texts) :
          LET r == BaseExpert_backward(unit, kwargs)
          IN /\ unit' = r.self
             /\ last' = [op |-> "backward", kwargs |-> kwargs, backend |-> outcome,
                         out |-> r.out, requests |-> r.requests]
    /\ ncalls' = ncalls + 1

Next == Construct \/ Forward \/ Backward

Spec == Init /\ [][Next]_vars

-----------------------------------------------------------------------------
\* utils.extract_code_from_string, from its contract: the inner text of the
\* first fenced block, its language tag dropped, trimmed of whitespace; the
\* whole response when it holds no fenced block.

Fences(s) == {i \in 1..Len(s) : s[i] = FENCE}

Min(S) == CHOOSE x \in S : \A y \in S : x <= y

HasBlock(s) == Cardinality(Fences(s)) >= 2

\* the inner text with the language tag that follows the opening marker dropped
untag(inner) == IF inner # <<>> /\ Head(inner) = LANG THEN Tail(inner) ELSE inner

RECURSIVE lstrip(_)
lstrip(s) == IF s # <<>> /\ Head(s) = NL THEN lstrip(Tail(s)) ELSE s

RECURSIVE rstrip(_)
rstrip(s) ==
    IF s # <<>> /\ s[Len(s)] = NL THEN rstrip(SubSeq(s, 1, Len(s) - 1)) ELSE s

strip(s) == rstrip(lstrip(s))

\* extraction whose fallback trims the response
extract_code_from_string_TrimFallback(answer) ==
    Str(LET s == answer.val
        IN IF ~HasBlock(s) THEN SubSeq(s, 1, Len(s) - 1)
           ELSE LET open == Min(Fences(s))
                    close == Min(Fences(s) \ {open})
                IN strip(untag(SubSeq(s, open + 1, close - 1))))

extract_code_from_string(answer) ==
    Str(LET s == answer.val
        IN IF ~HasBlock(s) THEN s
           ELSE LET open == Min(Fences(s))
                    close == Min(Fences(s) \ {open})
                IN strip(untag(SubSeq(s, open + 1, close - 1))))

-----------------------------------------------------------------------------
\* The baseline solvers.

DefaultModel == "gpt-5-2025-08-07"

\* the text both templates open with
PREAMBLE == "You are a Python programmer ... Now the origin problem is as follow:"

standard_prompt_template ==
    <<PREAMBLE, NL, "{problem}", NL, "Give your Python code directly.">>

chain_of_thought_prompt_template ==
    <<PREAMBLE, NL, "{problem_description}", NL,
      "Let's analyse the problem step by step, and then give your Python code.", NL,
      "Here is a starter code:", NL, "{code_example}">>

\* standard.solve returning the answer as it came
standard_solve_Raw(problem, model_name, outcome) ==
    LET llm_chain == LLMChain(ChatOpenAI(model_name, Temperature),
                              from_template(standard_prompt_template))
        r == predict(llm_chain, [problem |-> problem], outcome)
    IN r

\* baseline/standard.py solve: the outcome and the requests sent
standard_solve(problem, model_name, outcome) ==
    LET llm_chain == LLMChain(ChatOpenAI(model_name, Temperature),
                              from_template(standard_prompt_template))
        r == predict(llm_chain, [problem |-> problem], outcome)
    IN IF ~r.out.ok THEN r
       ELSE [out |-> Return(extract_code_from_string(r.out.val)),
             requests |-> r.requests]

\* chain_of_thought.solve putting the answer through the imported extraction
chain_of_thought_solve_Extracting(problem_data, model_name, outcome) ==
    IF ~({"description", "code_example"} \subseteq DOMAIN problem_data)
    THEN [out |-> Raise("KeyError"), requests |-> <<>>]
    ELSE LET llm_chain == LLMChain(ChatOpenAI(model_name, Temperature),
                                   from_template(chain_of_thought_prompt_template))
             r == predict(llm_chain,
                          [problem_description |-> problem_data["description"],
                           code_example |-> problem_data["code_example"]],
                          outcome)
         IN IF ~r.out.ok THEN r
            ELSE [out |-> Return(extract_code_from_string(r.out.val)),
                  requests |-> r.requests]

\* baseline/chain_of_thought.py solve: the outcome and the requests sent
chain_of_thought_solve(problem_data, model_name, outcome) ==
    IF ~({"description", "code_example"} \subseteq DOMAIN problem_data)
    THEN [out |-> Raise("KeyError"), requests |-> <<>>]
    ELSE LET llm_chain == LLMChain(ChatOpenAI(model_name, Temperature),
                                   from_template(chain_of_thought_prompt_template))
         IN predict(llm_chain,
                    [problem_description |-> problem_data["description"],
                     code_example |-> problem_data["code_example"]],
                    outcome)

ModelNames == {DefaultModel, "m1"}

InitBaseline == Init

SolveStandard ==
    /\ last.op = "none"
    /\ \E problem \in Texts, model_name \in ModelNames, outcome \in OutcomesOver(Responses) :
          LET r == standard_solve(Str(problem), model_name, outcome)
          IN last' = [op |-> "solve_standard", problem |-> Str(problem),
                      model_name |-> model_name, backend |-> outcome,
                      out |-> r.out, requests |-> r.requests]
    /\ UNCHANGED <<unit, ncalls>>

SolveChainOfThought ==
    /\ last.op = "none"
    /\ \E problem_data \in Kwargs({"description", "code_example", "problem_description"}),
          model_name \in ModelNames, outcome \in OutcomesOver(Responses) :
          LET r == chain_of_thought_solve(problem_data, model_name, outcome)
          IN last' = [op |-> "solve_chain_of_thought", problem_data |-> problem_data,
                      model_name |-> model_name, backend |-> outcome,
                      out |-> r.out, requests |-> r.requests]
    /\ UNCHANGED <<unit, ncalls>>

\* The caller takes the result and moves on to its next problem.
NextProblem ==
    /\ last.op # "none"
    /\ last' = [op |-> "none"]
    /\ UNCHANGED <<unit, ncalls>>

NextBaseline == SolveStandard \/ SolveChainOfThought \/ NextProblem

SpecBaseline == InitBaseline /\ [][NextBaseline]_vars

-----------------------------------------------------------------------------
\* The error taxonomy, as the Python exceptions that play each role.

\* a class attribute that is absent, or None where a string is concatenated
ConfigurationError == {"AttributeError", "TypeError"}
\* the chain's input validation, and a lookup of a missing key
TemplateError == {"ValueError", "KeyError"}
\* a failure of the completion request
BackendError == {"APIError"}
\* what a use of a chain that was never built would raise
CapabilityError == {"AttributeError", "NotImplementedError"}

\* the pipeline attributes of an expert object
PipelineFields ==
    {"name", "description", "model", "llm", "forward_prompt_template",
     "forward_chain", "backward_prompt_template", "backward_chain"}

Pipelines(u) == [f \in DOMAIN u \cap PipelineFields |-> u[f]]

MissingTemplate(cls) ==
    \E a \in {"ROLE_DESCRIPTION", "FORWARD_TASK"} : a \notin DOMAIN cls \/ cls[a] = None

-----------------------------------------------------------------------------
\* Properties of the expert (under Spec).

\* C1: every constructed unit, in every later state, has its forward chain,
\* and has a backward chain exactly when its class supplies BACKWARD_TASK.
C1_PipelinesExist ==
    unit # None =>
        /\ "forward_chain" \in DOMAIN unit
        /\ "backward_chain" \in DOMAIN unit <=> "BACKWARD_TASK" \in DOMAIN unit.class

\* a unit with a backward chain, after a call on it
C1_Witness ==
    /\ unit # None
    /\ "backward_chain" \in DOMAIN unit
    /\ ncalls >= 1

\* C2: backward on a unit built without BACKWARD_TASK fails with
\* CapabilityError instead of returning a value.
C2_BackwardWithoutTemplateFails ==
    (last.op = "backward" /\ "BACKWARD_TASK" \notin DOMAIN unit.class) =>
        (~last.out.ok /\ last.out.err \in CapabilityError)

\* C3: forward, given every placeholder and a backend that answers, sends
\* the rendered forward template and returns the backend's response.
C3_ForwardReturnsBackendResponse ==
    (/\ last.op = "forward"
     /\ unit.forward_chain.prompt.input_variables \subseteq DOMAIN last.kwargs
     /\ ~last.backend.fail) =>
        /\ last.out = Return(Str(last.backend.text))
        /\ last.requests =
              <<[model |-> unit.model, temperature |-> Temperature,
                 prompt |-> format(unit.forward_prompt_template.val, last.kwargs)]>>

\* C4: construction with ROLE_DESCRIPTION or FORWARD_TASK absent or None
\* fails with ConfigurationError and produces no unit.
C4_MissingTemplateFailsConstruction ==
    (last.op = "__init__" /\ MissingTemplate(last.cls)) =>
        (~last.out.ok /\ last.out.err \in ConfigurationError)

\* a construction with ROLE_DESCRIPTION = None that failed
C4_Witness ==
    /\ last.op = "__init__"
    /\ "ROLE_DESCRIPTION" \in DOMAIN last.cls
    /\ last.cls["ROLE_DESCRIPTION"] = None
    /\ "FORWARD_TASK" \in DOMAIN last.cls
    /\ last.cls["FORWARD_TASK"] # None
    /\ ~last.out.ok

\* C5: every call that is not stopped before dispatch issues exactly one
\* request, and a failed request reaches the caller as the call's error.
C5_ExactlyOneRequest ==
    (/\ last.op \in {"forward", "backward", "solve_standard", "solve_chain_of_thought"}
     /\ (last.out.ok \/ last.out.err \in BackendError)) =>
        /\ Len(last.requests) = 1
        /\ last.backend.fail => ~last.out.ok

\* C8: a forward or backward call whose chain exists fails with
\* TemplateError exactly when its inputs lack a placeholder of the template.
C8_RenderIffAllPlaceholders ==
    \A op \in {"forward", "backward"} :
        (last.op = op /\ (op \o "_chain") \in DOMAIN unit) =>
            LET needed == unit[op \o "_chain"].prompt.input_variables
            IN (needed \subseteq DOMAIN last.kwargs) <=>
                   ~(~last.out.ok /\ last.out.err \in TemplateError)

\* C10: a forward or backward call, successful or failing, leaves the
\* unit's name, description, model, temperature and templates as they were.
C10_PipelinesImmutable ==
    [][last'.op \in {"forward", "backward"} => Pipelines(unit') = Pipelines(unit)]_vars

\* a failing call that follows an earlier call on the same unit
C10_Witness ==
    /\ ncalls >= 2
    /\ last.op = "forward"
    /\ ~last.out.ok
    /\ "backward_chain" \in DOMAIN unit

-----------------------------------------------------------------------------
\* Properties of the baseline solvers (under SpecBaseline).

\* a fenced block of r: an opening and the next closing marker
Blocks(r) ==
    {b \in Fences(r) \X Fences(r) :
        b[1] < b[2] /\ ~\E k \in Fences(r) : b[1] < k /\ k < b[2]}

\* C6: solve_standard sends the standard template rendered with the problem
\* and returns the trimmed inner text of a fenced block of the response, the
\* language tag excluded, or the response unchanged when it has no block.
C6_StandardReturnsExtractedCode ==
    (last.op = "solve_standard" /\ ~last.backend.fail) =>
        LET r == last.backend.text
        IN /\ last.requests =
                 <<[model |-> last.model_name, temperature |-> Temperature,
                    prompt |-> <<PREAMBLE, NL>> \o last.problem.val \o
                               <<NL, "Give your Python code directly.">>]>>
           /\ last.out.ok
           /\ IF Blocks(r) = {} THEN last.out.val = Str(r)
              ELSE \E b \in Blocks(r) :
                      last.out.val = Str(strip(untag(SubSeq(r, b[1] + 1, b[2] - 1))))

\* a response of prose, a tagged and padded block: the code alone comes back
C6_Witness ==
    /\ last.op = "solve_standard"
    /\ ~last.backend.fail
    /\ last.backend.text = <<CODE, FENCE, LANG, NL, CODE, FENCE>>
    /\ last.out = Return(Str(<<CODE>>))

\* C7: solve_chain_of_thought renders its template with problem_description
\* and code_example from the input and returns the response unchanged.
C7_ChainOfThoughtReturnsRaw ==
    (/\ last.op = "solve_chain_of_thought"
     /\ {"description", "code_example"} \subseteq DOMAIN last.problem_data) =>
        /\ last.requests =
              <<[model |-> last.model_name, temperature |-> Temperature,
                 prompt |-> <<PREAMBLE, NL>> \o last.problem_data["description"].val \o
                            <<NL, "Let's analyse the problem step by step, and then give your Python code.",
                              NL, "Here is a starter code:", NL>> \o
                            last.problem_data["code_example"].val]>>
        /\ ~last.backend.fail => last.out = Return(Str(last.backend.text))

\* a fenced response that came back with its fences
C7_Witness ==
    /\ last.op = "solve_chain_of_thought"
    /\ ~last.backend.fail
    /\ HasBlock(last.backend.text)
    /\ last.out = Return(Str(last.backend.text))

\* C9: on a response or a result without a fence marker, extraction changes
\* nothing, and so does extracting again.
C9_ExtractIdempotentOnFenceFree ==
    (last.op = "solve_standard" /\ last.out.ok) =>
        \A x \in {Str(last.backend.text), last.out.val} :
            Fences(x.val) = {} =>
                /\ extract_code_from_string(extract_code_from_string(x)) =
                       extract_code_from_string(x)
                /\ extract_code_from_string(x) = x

\* a fence-free response of several tokens went through extraction
C9_Witness ==
    /\ last.op = "solve_standard"
    /\ last.out.ok
    /\ Fences(last.backend.text) = {}
    /\ Len(last.backend.text) >= 3
    /\ last.out.val = Str(last.backend.text)

====
